---- MODULE Spec2Model ----
(***************************************************************************)
(* Model of the INI settings store (Settings) and of the render loop that  *)
(* consumes it (DxApp).  Strings are sequences of one-character strings,   *)
(* so that trimming, comment stripping, splitting, numeric parsing and     *)
(* formatting are computed character by character as the code does.        *)
(***************************************************************************)
EXTENDS Integers, Sequences, FiniteSets, TLC

(***************************************************************************)
(* Part 1.  Characters and the string helpers of Settings.cpp.             *)
(***************************************************************************)

\* std::isspace in the "C" locale, restricted to the characters the model uses.
IsSpace(c) == c \in {" ", "\t", "\r", "\n"}

RECURSIVE DropLeadingSpace(_)
\* s.erase(s.begin(), find_if(first non-space))
DropLeadingSpace(s) ==
    IF s = <<>> THEN s
    ELSE IF IsSpace(Head(s)) THEN DropLeadingSpace(Tail(s)) ELSE s

RECURSIVE DropTrailingSpace(_)
\* s.erase(find_if(rbegin, first non-space).base(), s.end())
DropTrailingSpace(s) ==
    IF s = <<>> THEN s
    ELSE IF IsSpace(s[Len(s)]) THEN DropTrailingSpace(SubSeq(s, 1, Len(s) - 1)) ELSE s

\* A trim that forgets the trailing erase.
trim_LeadingOnly(s) == DropLeadingSpace(s)

\* static inline void trim(string& s)
trim(s) == DropTrailingSpace(DropLeadingSpace(s))

RECURSIVE FindFrom(_, _, _)
FindFrom(s, c, i) ==
    IF i > Len(s) THEN 0
    ELSE IF s[i] = c THEN i ELSE FindFrom(s, c, i + 1)

\* std::string::find(char): 1-based index of the first occurrence, 0 for npos.
Find(s, c) == FindFrom(s, c, 1)

\* std::string::erase(pos): keeps the characters before pos (pos is 1-based).
EraseFrom(s, pos) == SubSeq(s, 1, pos - 1)

RECURSIVE SplitLines(_)
\* The successive results of std::getline(iss, line) over the whole text.
SplitLines(text) ==
    IF text = <<>> THEN <<>>
    ELSE LET n == Find(text, "\n")
         IN IF n = 0 THEN <<text>>
            ELSE <<SubSeq(text, 1, n - 1)>> \o SplitLines(SubSeq(text, n + 1, Len(text)))

(***************************************************************************)
(* Part 2.  The document (m_data) and Parse.                               *)
(***************************************************************************)

\* A default-constructed m_data.
EmptyData == << >>

\* m_data[cat][key] = val  (operator[] creates the category and key if absent)
PutValue(data, cat, key, val) ==
    LET old == IF cat \in DOMAIN data THEN data[cat] ELSE << >>
        kv  == [k \in (DOMAIN old) \cup {key} |-> IF k = key THEN val ELSE old[k]]
    IN [c \in (DOMAIN data) \cup {cat} |-> IF c = cat THEN kv ELSE data[c]]

\* The literal "Default" of Parse.
S_Default == <<"D", "e", "f", "a", "u", "l", "t">>

\* Comment stripping that only knows ';'.
StripComment_SemiOnly(line) ==
    LET semi == Find(line, ";")
    IN IF semi # 0 THEN EraseFrom(line, semi) ELSE line

\* Lines 88-93 of Parse: erase from the first ';', then from the first '#'.
StripComment(line) ==
    LET semi == Find(line, ";")
        l1   == IF semi # 0 THEN EraseFrom(line, semi) ELSE line
        hash == Find(l1, "#")
    IN IF hash # 0 THEN EraseFrom(l1, hash) ELSE l1

\* A header that leaves the current category alone.
ParseLine_KeepCat(st, rawLine) ==
    LET line == trim(StripComment(rawLine))
    IN IF line = <<>> THEN st
       ELSE IF Head(line) = "[" /\ line[Len(line)] = "]" THEN st
       ELSE LET eq == Find(line, "=")
            IN IF eq = 0 THEN st
               ELSE [st EXCEPT !.data =
                        PutValue(st.data, st.currentCat,
                                 trim(SubSeq(line, 1, eq - 1)),
                                 trim(SubSeq(line, eq + 1, Len(line))))]

\* A duplicate key that keeps its first value.
ParseLine_FirstWins(st, rawLine) ==
    LET line == trim(StripComment(rawLine))
    IN IF line = <<>> THEN st
       ELSE IF Head(line) = "[" /\ line[Len(line)] = "]"
            THEN [st EXCEPT !.currentCat = trim(SubSeq(line, 2, Len(line) - 1))]
       ELSE LET eq  == Find(line, "=")
                key == trim(SubSeq(line, 1, eq - 1))
            IN IF eq = 0 THEN st
               ELSE IF st.currentCat \in DOMAIN st.data
                       /\ key \in DOMAIN st.data[st.currentCat] THEN st
               ELSE [st EXCEPT !.data =
                        PutValue(st.data, st.currentCat, key,
                                 trim(SubSeq(line, eq + 1, Len(line))))]

\* One iteration of the while loop of Parse; st = [data, currentCat].
ParseLine(st, rawLine) ==
    LET line == trim(StripComment(rawLine))
    IN IF line = <<>> THEN st
       ELSE IF Head(line) = "[" /\ line[Len(line)] = "]"
            THEN [st EXCEPT !.currentCat = trim(SubSeq(line, 2, Len(line) - 1))]
       ELSE LET eq == Find(line, "=")
            IN IF eq = 0 THEN st
               ELSE [st EXCEPT !.data =
                        PutValue(st.data, st.currentCat,
                                 trim(SubSeq(line, 1, eq - 1)),
                                 trim(SubSeq(line, eq + 1, Len(line))))]

RECURSIVE ParseLines(_, _)
ParseLines(st, lines) ==
    IF lines = <<>> THEN st
    ELSE ParseLines(ParseLine(st, Head(lines)), Tail(lines))

\* bool Settings::Parse(text): m_data.clear(), then the loop; always true.
Parse(text) ==
    [ok   |-> TRUE,
     data |-> ParseLines([data |-> EmptyData, currentCat |-> S_Default],
                         SplitLines(text)).data]

(***************************************************************************)
(* Part 3.  Numeric conversions used by the typed getters and setters.     *)
(***************************************************************************)

Digits == <<"0", "1", "2", "3", "4", "5", "6", "7", "8", "9">>

IsDigit(c) == \E i \in 1..Len(Digits) : Digits[i] = c

DigitVal(c) == (CHOOSE i \in 1..Len(Digits) : Digits[i] = c) - 1

\* Range of the C++ int returned by std::stoi.
INT_MAX == 2147483647

INT_MIN == (-INT_MAX) - 1

RECURSIVE StoiAccum(_, _, _, _, _)
\* The digit loop of strtol, accumulating towards INT_MIN so that the whole
\* range of int is representable; over records a value outside that range.
StoiAccum(s, i, acc, any, over) ==
    IF i > Len(s) \/ ~IsDigit(s[i]) THEN [any |-> any, over |-> over, acc |-> acc]
    ELSE LET d == DigitVal(s[i])
         IN IF over \/ acc < INT_MIN \div 10 + 1
                    \/ (acc = INT_MIN \div 10 + 1 /\ d > 8)
            THEN StoiAccum(s, i + 1, acc, TRUE, TRUE)
            ELSE StoiAccum(s, i + 1, acc * 10 - d, TRUE, FALSE)

\* A stoi that rejects any text left over after the number.
Stoi_Strict(s) ==
    LET t      == DropLeadingSpace(s)
        neg    == t # <<>> /\ Head(t) = "-"
        start  == IF t # <<>> /\ Head(t) \in {"+", "-"} THEN 2 ELSE 1
        r      == StoiAccum(t, start, 0, FALSE, FALSE)
        RECURSIVE AllDigits(_, _)
        AllDigits(u, i) == i > Len(u) \/ (IsDigit(u[i]) /\ AllDigits(u, i + 1))
    IN IF ~r.any \/ ~AllDigits(t, start) THEN [ok |-> FALSE, val |-> 0]
       ELSE IF r.over THEN [ok |-> FALSE, val |-> 0]
       ELSE IF neg THEN [ok |-> TRUE, val |-> r.acc]
       ELSE IF r.acc = INT_MIN THEN [ok |-> FALSE, val |-> 0]
       ELSE [ok |-> TRUE, val |-> -r.acc]

\* A stoi whose out-of-range result saturates instead of throwing.
Stoi_Saturating(s) ==
    LET t      == DropLeadingSpace(s)
        neg    == t # <<>> /\ Head(t) = "-"
        start  == IF t # <<>> /\ Head(t) \in {"+", "-"} THEN 2 ELSE 1
        r      == StoiAccum(t, start, 0, FALSE, FALSE)
    IN IF ~r.any THEN [ok |-> FALSE, val |-> 0]
       ELSE IF r.over THEN [ok |-> TRUE, val |-> IF neg THEN INT_MIN ELSE INT_MAX]
       ELSE IF neg THEN [ok |-> TRUE, val |-> r.acc]
       ELSE IF r.acc = INT_MIN THEN [ok |-> TRUE, val |-> INT_MAX]
       ELSE [ok |-> TRUE, val |-> -r.acc]

\* std::stoi(s): skips leading white space, takes an optional sign and the
\* longest run of digits, ignores whatever follows; ok = FALSE stands for the
\* exception (invalid_argument with no digit, out_of_range outside int).
Stoi(s) ==
    LET t      == DropLeadingSpace(s)
        neg    == t # <<>> /\ Head(t) = "-"
        start  == IF t # <<>> /\ Head(t) \in {"+", "-"} THEN 2 ELSE 1
        r      == StoiAccum(t, start, 0, FALSE, FALSE)
    IN IF ~r.any THEN [ok |-> FALSE, val |-> 0]
       ELSE IF r.over THEN [ok |-> FALSE, val |-> 0]
       ELSE IF neg THEN [ok |-> TRUE, val |-> r.acc]
       ELSE IF r.acc = INT_MIN THEN [ok |-> FALSE, val |-> 0]
       ELSE [ok |-> TRUE, val |-> -r.acc]

RECURSIVE DigitsOfNeg(_)
\* Decimal digits of -n for n <= 0 (no digit for 0).
DigitsOfNeg(n) ==
    IF n = 0 THEN <<>>
    ELSE LET d == (10 - (n % 10)) % 10
         IN DigitsOfNeg((n + d) \div 10) \o <<Digits[d + 1]>>

\* std::to_string(int)
IntToString(v) ==
    IF v = 0 THEN <<"0">>
    ELSE IF v < 0 THEN <<"-">> \o DigitsOfNeg(v)
    ELSE DigitsOfNeg(-v)

\* Number of decimals std::to_string(double) prints ("%f").
ToStringDecimals == 6

\* A double is modelled as a fixed-point number with one decimal more than
\* to_string prints: the integer d stands for d / DblScale.
DblDecimals == ToStringDecimals + 1

DblScale == 10 ^ DblDecimals

\* Largest integer part the modelled double holds; beyond it stod reports
\* out_of_range, as std::stod does beyond DBL_MAX.
DblMaxInt == (INT_MAX \div DblScale) - 1

RECURSIVE StodInt(_, _, _, _, _)
\* Integer part: the run of digits starting at i.
StodInt(s, i, acc, any, over) ==
    IF i > Len(s) \/ ~IsDigit(s[i])
    THEN [next |-> i, any |-> any, over |-> over, acc |-> acc]
    ELSE LET v == acc * 10 + DigitVal(s[i])
         IN IF over \/ v > DblMaxInt
            THEN StodInt(s, i + 1, acc, TRUE, TRUE)
            ELSE StodInt(s, i + 1, v, TRUE, FALSE)

RECURSIVE StodFrac(_, _, _, _, _)
\* Fraction: the run of digits starting at i; digits beyond the resolution
\* of the modelled double do not change the value.
StodFrac(s, i, acc, n, any) ==
    IF i > Len(s) \/ ~IsDigit(s[i])
    THEN [any |-> any, acc |-> acc * (10 ^ (DblDecimals - n))]
    ELSE IF n >= DblDecimals THEN StodFrac(s, i + 1, acc, n, TRUE)
    ELSE StodFrac(s, i + 1, acc * 10 + DigitVal(s[i]), n + 1, TRUE)

\* A stod that rejects any text left over after the number.
Stod_Strict(s) ==
    LET t      == DropLeadingSpace(s)
        neg    == t # <<>> /\ Head(t) = "-"
        start  == IF t # <<>> /\ Head(t) \in {"+", "-"} THEN 2 ELSE 1
        ip     == StodInt(t, start, 0, FALSE, FALSE)
        dot    == ip.next <= Len(t) /\ t[ip.next] = "."
        fp     == IF dot THEN StodFrac(t, ip.next + 1, 0, 0, FALSE)
                  ELSE [any |-> FALSE, acc |-> 0]
        mag    == ip.acc * DblScale + fp.acc
        RECURSIVE Rest(_, _)
        Rest(u, i) == i > Len(u) \/ ((IsDigit(u[i]) \/ u[i] = ".") /\ Rest(u, i + 1))
    IN IF ~(ip.any \/ fp.any) \/ ~Rest(t, start) THEN [ok |-> FALSE, val |-> 0]
       ELSE IF ip.over THEN [ok |-> FALSE, val |-> 0]
       ELSE [ok |-> TRUE, val |-> IF neg THEN -mag ELSE mag]

\* std::stod(s) on decimal text without exponent: leading white space, an
\* optional sign, digits, an optional '.' and digits, at least one digit in
\* all; whatever follows is ignored.  ok = FALSE stands for the exception.
Stod(s) ==
    LET t      == DropLeadingSpace(s)
        neg    == t # <<>> /\ Head(t) = "-"
        start  == IF t # <<>> /\ Head(t) \in {"+", "-"} THEN 2 ELSE 1
        ip     == StodInt(t, start, 0, FALSE, FALSE)
        dot    == ip.next <= Len(t) /\ t[ip.next] = "."
        fp     == IF dot THEN StodFrac(t, ip.next + 1, 0, 0, FALSE)
                  ELSE [any |-> FALSE, acc |-> 0]
        mag    == ip.acc * DblScale + fp.acc
    IN IF ~(ip.any \/ fp.any) THEN [ok |-> FALSE, val |-> 0]
       ELSE IF ip.over THEN [ok |-> FALSE, val |-> 0]
       ELSE [ok |-> TRUE, val |-> IF neg THEN -mag ELSE mag]

RECURSIVE PadLeft(_, _)
PadLeft(s, n) == IF Len(s) >= n THEN s ELSE PadLeft(<<"0">> \o s, n)

\* A to_string that prints only two decimals.
DoubleToString_TwoDecimals(v) ==
    LET a    == IF v < 0 THEN -v ELSE v
        q    == a \div (10 ^ (DblDecimals - 2))
        ip   == q \div 100
        fp   == q % 100
    IN (IF v < 0 THEN <<"-">> ELSE <<>>)
       \o (IF ip = 0 THEN <<"0">> ELSE DigitsOfNeg(-ip))
       \o <<".">> \o PadLeft(DigitsOfNeg(-fp), 2)

\* std::to_string(double): "%f", i.e. the value rounded to ToStringDecimals
\* decimals (ties to even), with a sign for negative values.
DoubleToString(v) ==
    LET a    == IF v < 0 THEN -v ELSE v
        q    == a \div 10
        r    == a % 10
        rq   == IF r > 5 \/ (r = 5 /\ q % 2 = 1) THEN q + 1 ELSE q
        unit == 10 ^ ToStringDecimals
        ip   == rq \div unit
        fp   == rq % unit
    IN (IF v < 0 THEN <<"-">> ELSE <<>>)
       \o (IF ip = 0 THEN <<"0">> ELSE DigitsOfNeg(-ip))
       \o <<".">> \o PadLeft(DigitsOfNeg(-fp), ToStringDecimals)

UpperCase == <<"A", "B", "C", "D", "E", "F", "G", "H", "I", "J", "K", "L", "M",
               "N", "O", "P", "Q", "R", "S", "T", "U", "V", "W", "X", "Y", "Z">>

LowerCase == <<"a", "b", "c", "d", "e", "f", "g", "h", "i", "j", "k", "l", "m",
               "n", "o", "p", "q", "r", "s", "t", "u", "v", "w", "x", "y", "z">>

\* ::tolower on one character.
ToLowerChar(c) ==
    IF \E i \in 1..Len(UpperCase) : UpperCase[i] = c
    THEN LowerCase[CHOOSE i \in 1..Len(UpperCase) : UpperCase[i] = c]
    ELSE c

\* std::transform(v.begin(), v.end(), v.begin(), ::tolower)
ToLower(s) == [i \in 1..Len(s) |-> ToLowerChar(s[i])]

(***************************************************************************)
(* Part 4.  Typed getters and setters.                                     *)
(***************************************************************************)

NullOpt == [has |-> FALSE, val |-> <<>>]

\* std::optional<std::string> Settings::GetString(cat, key)
GetString(data, cat, key) ==
    IF cat \notin DOMAIN data THEN NullOpt
    ELSE IF key \notin DOMAIN data[cat] THEN NullOpt
    ELSE [has |-> TRUE, val |-> data[cat][key]]

\* double Settings::GetDouble(cat, key, def)
GetDouble(data, cat, key, def) ==
    LET s == GetString(data, cat, key)
    IN IF ~s.has THEN def
       ELSE LET r == Stod(s.val) IN IF r.ok THEN r.val ELSE def

\* int Settings::GetInt(cat, key, def)
GetInt(data, cat, key, def) ==
    LET s == GetString(data, cat, key)
    IN IF ~s.has THEN def
       ELSE LET r == Stoi(s.val) IN IF r.ok THEN r.val ELSE def

S_1 == <<"1">>
S_0 == <<"0">>
S_true == <<"t", "r", "u", "e">>
S_false == <<"f", "a", "l", "s", "e">>
S_on == <<"o", "n">>
S_off == <<"o", "f", "f">>
S_yes == <<"y", "e", "s">>
S_no == <<"n", "o">>

\* A GetBool that compares without lower-casing.
GetBool_CaseSensitive(data, cat, key, def) ==
    LET s == GetString(data, cat, key)
    IN IF ~s.has THEN def
       ELSE LET v == s.val
            IN IF v \in {S_1, S_true, S_on, S_yes} THEN TRUE
               ELSE IF v \in {S_0, S_false, S_off, S_no} THEN FALSE
               ELSE def

\* bool Settings::GetBool(cat, key, def)
GetBool(data, cat, key, def) ==
    LET s == GetString(data, cat, key)
    IN IF ~s.has THEN def
       ELSE LET v == ToLower(s.val)
            IN IF v = S_1 \/ v = S_true \/ v = S_on \/ v = S_yes THEN TRUE
               ELSE IF v = S_0 \/ v = S_false \/ v = S_off \/ v = S_no THEN FALSE
               ELSE def

\* void Settings::SetString(cat, key, v)
SetString(data, cat, key, v) == PutValue(data, cat, key, v)

\* void Settings::SetDouble(cat, key, v)
SetDouble(data, cat, key, v) == PutValue(data, cat, key, DoubleToString(v))

\* void Settings::SetInt(cat, key, v)
SetInt(data, cat, key, v) == PutValue(data, cat, key, IntToString(v))

\* void Settings::SetBool(cat, key, v)
SetBool(data, cat, key, v) == PutValue(data, cat, key, IF v THEN S_1 ELSE S_0)

(***************************************************************************)
(* Part 5.  State.                                                         *)
(***************************************************************************)

VARIABLES
    m_data,                 \* Settings::m_data
    m_path,                 \* Settings::m_path
    m_lastWriteTime,        \* Settings::m_lastWriteTime
    fs,                     \* the file system: path -> file
    now,                    \* the file system's clock
    call,                   \* the last operation called, its arguments and result
    since,                  \* what happened since the last ReloadIfChanged
    arg,                    \* the input of the pure-function specifications
    pc,                     \* DxApp: position inside Render
    m_vsync,                \* DxApp::m_vsync
    m_hotReloadIntervalMs,  \* DxApp::m_hotReloadIntervalMs
    m_clear,                \* DxApp::m_clear
    m_scale,                \* DxApp::m_scale
    m_speed,                \* DxApp::m_speed
    m_tint,                 \* DxApp::m_tint
    frame                   \* DxApp: what the current frame has done so far

settingsVars == <<m_data, m_path, m_lastWriteTime>>
envVars == <<fs, now>>
appVars == <<pc, m_vsync, m_hotReloadIntervalMs, m_clear, m_scale, m_speed, m_tint, frame>>
vars == <<m_data, m_path, m_lastWriteTime, fs, now, call, since, arg,
          pc, m_vsync, m_hotReloadIntervalMs, m_clear, m_scale, m_speed, m_tint, frame>>

\* The value d / DblScale of a decimal literal with DblDecimals decimals.
Dbl(ip, fp) == ip * DblScale + fp

\* The member initialisers of DxApp.h before Init runs.
AppConstructed ==
    /\ pc = "new"
    /\ m_vsync = 1
    /\ m_hotReloadIntervalMs = 500
    /\ m_clear = <<Dbl(0, 500000), Dbl(0, 1000000), Dbl(0, 2000000), Dbl(1, 0)>>
    /\ m_scale = Dbl(1, 0)
    /\ m_speed = Dbl(1, 0)
    /\ m_tint = <<Dbl(1, 0), Dbl(1, 0), Dbl(1, 0)>>
    /\ frame = <<>>

\* A default-constructed Settings.
SettingsConstructed ==
    /\ m_data = EmptyData
    /\ m_path = ""
    /\ m_lastWriteTime = 0

NoCall == [op |-> "none"]

\* since.reload is the result ("true", "false") of the last ReloadIfChanged if no other member
\* of Settings that changes state was called after it ("none" otherwise);
\* wrote and access tell whether the file at m_path was written, or changed
\* between openable and not openable, after that call; saved tells that
\* Save succeeded and the file was not written from outside, nor another
\* path loaded, since.
NoSince == [reload |-> "none", wrote |-> FALSE, access |-> FALSE, saved |-> FALSE]

(***************************************************************************)
(* Part 6.  Parse as a pure function: SpecParse builds every text of at    *)
(* most MaxLines lines drawn from LineSamples and applies Parse to it.     *)
(***************************************************************************)

MaxLines == 4

LineSamples ==
    { <<"[", "A", "]">>,
      <<" ", "[", " ", "B", " ", "]", " ", ";", "c">>,
      <<"k", "=", "1">>,
      <<" ", "k", " ", "=", " ", "2", " ", ";", " ", "c">>,
      <<"j", "=", "a", "=", "b">>,
      <<"#", "k", "=", "3">>,
      <<"j", "u", "n", "k">>,
      <<"k", "=", "7", "#", "[", "B", "]">>,
      <<"[", "k", "=", "1", "]">> }

RECURSIVE JoinLines(_)
JoinLines(ls) ==
    IF ls = <<>> THEN <<>>
    ELSE IF Len(ls) = 1 THEN ls[1]
    ELSE ls[1] \o <<"\n">> \o JoinLines(Tail(ls))

InitParse ==
    /\ SettingsConstructed
    /\ AppConstructed
    /\ fs = << >>
    /\ now = 0
    /\ call = NoCall
    /\ since = NoSince
    /\ arg = [lines |-> <<>>]

\* The input text grows by one line drawn from LineSamples.
AppendLine ==
    /\ call.op = "none"
    /\ Len(arg.lines) < MaxLines
    /\ \E l \in LineSamples :
          arg' = [lines |-> Append(arg.lines, l)]
    /\ UNCHANGED <<settingsVars, fs, now, call, since, appVars>>

\* One call of Parse on the input text.
ParseCall ==
    /\ call.op = "none"
    /\ m_data' = Parse(JoinLines(arg.lines)).data
    /\ call' = [op |-> "Parse", ret |-> Parse(JoinLines(arg.lines)).ok]
    /\ UNCHANGED <<m_path, m_lastWriteTime, fs, now, since, arg, appVars>>

NextParse == AppendLine \/ ParseCall

SpecParse == InitParse /\ [][NextParse]_vars

(***************************************************************************)
(* What Parse is expected to produce, stated over the input lines by       *)
(* position rather than by the loop of the code.                           *)
(***************************************************************************)

SetMin(S) == CHOOSE x \in S : \A y \in S : x <= y

SetMax(S) == CHOOSE x \in S : \A y \in S : x >= y

\* The line without its comment: everything before the first ';' or '#'.
CommentFree(line) ==
    LET idx == {i \in 1..Len(line) : line[i] \in {";", "#"}}
    IN IF idx = {} THEN line ELSE SubSeq(line, 1, SetMin(idx) - 1)

\* The text between the first and the last non-blank character.
Stripped(s) ==
    LET ns == {i \in 1..Len(s) : ~IsSpace(s[i])}
    IN IF ns = {} THEN <<>> ELSE SubSeq(s, SetMin(ns), SetMax(ns))

Effective(line) == Stripped(CommentFree(line))

IsHeaderLine(l) == l # <<>> /\ l[1] = "[" /\ l[Len(l)] = "]"

IsKeyLine(l) == l # <<>> /\ ~IsHeaderLine(l) /\ \E i \in 1..Len(l) : l[i] = "="

HeaderName(l) == Stripped(SubSeq(l, 2, Len(l) - 1))

FirstEq(l) == SetMin({i \in 1..Len(l) : l[i] = "="})

KeyOf(l) == Stripped(SubSeq(l, 1, FirstEq(l) - 1))

ValOf(l) == Stripped(SubSeq(l, FirstEq(l) + 1, Len(l)))

\* The category in force at line i: the name of the last header before it.
CatAt(ls, i) ==
    LET hs == {j \in 1..(i - 1) : IsHeaderLine(Effective(ls[j]))}
    IN IF hs = {} THEN S_Default ELSE HeaderName(Effective(ls[SetMax(hs)]))

KeyLines(ls) == {i \in 1..Len(ls) : IsKeyLine(Effective(ls[i]))}

\* C8: section scoping.  After Parse, every key/value line is filed under
\* the trimmed name of the most recent header line before it, or under
\* "Default" when there is none, and every category of the document comes
\* from such a key/value line: a header alone creates nothing, and the key
\* lines after a repeated header land in the one category of that name.
C8_SectionScoping ==
    call.op = "Parse" =>
        LET ls == arg.lines
        IN /\ \A i \in KeyLines(ls) :
                /\ CatAt(ls, i) \in DOMAIN m_data
                /\ KeyOf(Effective(ls[i])) \in DOMAIN m_data[CatAt(ls, i)]
           /\ \A c \in DOMAIN m_data : \E i \in KeyLines(ls) : CatAt(ls, i) = c

\* A text with a key before any header, and a header name that is repeated
\* with key lines after both occurrences.
C8_Witness ==
    /\ call.op = "Parse"
    /\ LET ls == arg.lines
       IN \E i, j \in 1..Len(ls) :
            /\ i < j
            /\ IsHeaderLine(Effective(ls[i])) /\ IsHeaderLine(Effective(ls[j]))
            /\ HeaderName(Effective(ls[i])) = HeaderName(Effective(ls[j]))
            /\ \E a \in KeyLines(ls), b \in KeyLines(ls) :
                  /\ i < a /\ a < j /\ j < b
                  /\ KeyOf(Effective(ls[a])) # KeyOf(Effective(ls[b]))
                  /\ DOMAIN m_data[HeaderName(Effective(ls[i]))]
                        = {KeyOf(Effective(ls[a])), KeyOf(Effective(ls[b]))}

\* A text whose only lines are headers leaves the document empty.
C8_WitnessHeaderOnly ==
    /\ call.op = "Parse"
    /\ Len(arg.lines) > 0
    /\ \A i \in 1..Len(arg.lines) : IsHeaderLine(Effective(arg.lines[i]))
    /\ m_data = EmptyData

\* C9: line handling.  Parse reports success, and the document holds exactly
\* one value per (category, key) that some key/value line names: the text
\* after the first '=' of the last such line, taken after the comment (from
\* the first ';' or '#') was cut off and blanks were trimmed.  Lines that are
\* empty after the cut, and lines without '=' that are no header, add nothing.
C9_LineHandling ==
    call.op = "Parse" =>
        LET ls == arg.lines
        IN /\ call.ret = TRUE
           /\ \A c \in DOMAIN m_data : \A k \in DOMAIN m_data[c] :
                LET occ == {i \in KeyLines(ls) :
                               CatAt(ls, i) = c /\ KeyOf(Effective(ls[i])) = k}
                IN /\ occ # {}
                   /\ m_data[c][k] = ValOf(Effective(ls[SetMax(occ)]))
           /\ \A i \in KeyLines(ls) :
                GetString(m_data, CatAt(ls, i), KeyOf(Effective(ls[i]))).has

\* A text with an inline comment after a value, a key given twice with
\* different values in one category, and a line without '='.
C9_Witness ==
    /\ call.op = "Parse"
    /\ LET ls == arg.lines
       IN /\ \E i, j \in KeyLines(ls) :
               /\ i < j
               /\ CatAt(ls, i) = CatAt(ls, j)
               /\ KeyOf(Effective(ls[i])) = KeyOf(Effective(ls[j]))
               /\ ValOf(Effective(ls[i])) # ValOf(Effective(ls[j]))
               /\ CommentFree(ls[j]) # ls[j]
               /\ m_data[CatAt(ls, j)][KeyOf(Effective(ls[j]))] = ValOf(Effective(ls[j]))
          /\ \E d \in 1..Len(ls) :
               /\ Effective(ls[d]) # <<>>
               /\ ~IsHeaderLine(Effective(ls[d]))
               /\ ~IsKeyLine(Effective(ls[d]))

(***************************************************************************)
(* Part 7.  The typed getters as pure functions: SpecGet stores every      *)
(* string of at most MaxValLen characters of ValChars, and the strings of  *)
(* ValueSamples, under one key and calls the getters on it.                *)
(***************************************************************************)

S_Render == <<"R", "e", "n", "d", "e", "r">>
S_Clear == <<"C", "l", "e", "a", "r">>
S_VSync == <<"V", "S", "y", "n", "c">>
S_R == <<"R">>

MaxValLen == 3

ValChars == {"1", "0", "-", ".", " ", "a", "o", "N"}

ValueSamples ==
    { <<"1", "2", "a", "b", "c">>,
      <<"2", "1", "4", "7", "4", "8", "3", "6", "4", "7">>,
      <<"2", "1", "4", "7", "4", "8", "3", "6", "4", "8">>,
      <<"-", "2", "1", "4", "7", "4", "8", "3", "6", "4", "8">>,
      <<"-", "2", "1", "4", "7", "4", "8", "3", "6", "4", "9">>,
      <<"0", "0", "1", "2">>,
      <<"2", ".", "5">>,
      <<"1", ".", "0", "f">>,
      <<"0", ".", "0", "0", "0", "0", "0", "0", "4">>,
      <<"T", "R", "U", "E">>,
      <<"t", "r", "u", "e">>,
      <<"O", "n">>,
      <<"Y", "E", "S">>,
      <<"Y", "e", "s">>,
      <<"o", "f", "f">>,
      <<"F", "A", "L", "S", "E">>,
      <<"N", "o">>,
      <<"m", "a", "y", "b", "e">>,
      <<"y", "e", "s", "!">>,
      <<"\t", "n", "o">> }

\* The (category, key) pairs the getters are called with: the stored pair,
\* an absent key of a present category, and an absent category.
GetTargets == {<<S_Render, S_VSync>>, <<S_Render, S_R>>, <<S_Clear, S_VSync>>}

IntDefaults == {0, 500}

DblDefaults == {0, Dbl(1, 0)}

InitGet ==
    /\ SettingsConstructed
    /\ AppConstructed
    /\ fs = << >>
    /\ now = 0
    /\ call = NoCall
    /\ since = NoSince
    /\ arg = [s |-> <<>>]

\* The string to store grows by one character.
AppendChar ==
    /\ call.op = "none"
    /\ Len(arg.s) < MaxValLen
    /\ arg.s \notin ValueSamples
    /\ \E c \in ValChars : arg' = [s |-> Append(arg.s, c)]
    /\ UNCHANGED <<settingsVars, fs, now, call, since, appVars>>

\* The string to store is one of the samples.
PickSample ==
    /\ call.op = "none"
    /\ arg.s = <<>>
    /\ \E v \in ValueSamples : arg' = [s |-> v]
    /\ UNCHANGED <<settingsVars, fs, now, call, since, appVars>>

\* SetString(Render, VSync, s)
StoreCall ==
    /\ call.op = "none"
    /\ m_data' = SetString(m_data, S_Render, S_VSync, arg.s)
    /\ call' = [op |-> "SetString", cat |-> S_Render, key |-> S_VSync, val |-> arg.s]
    /\ UNCHANGED <<m_path, m_lastWriteTime, fs, now, since, arg, appVars>>

GetStringCall ==
    /\ \E t \in GetTargets :
          call' = [op |-> "GetString", cat |-> t[1], key |-> t[2],
                   ret |-> GetString(m_data, t[1], t[2])]
    /\ UNCHANGED <<settingsVars, fs, now, since, arg, appVars>>

GetIntCall ==
    /\ \E t \in GetTargets, def \in IntDefaults :
          call' = [op |-> "GetInt", cat |-> t[1], key |-> t[2], def |-> def,
                   ret |-> GetInt(m_data, t[1], t[2], def)]
    /\ UNCHANGED <<settingsVars, fs, now, since, arg, appVars>>

GetDoubleCall ==
    /\ \E t \in GetTargets, def \in DblDefaults :
          call' = [op |-> "GetDouble", cat |-> t[1], key |-> t[2], def |-> def,
                   ret |-> GetDouble(m_data, t[1], t[2], def)]
    /\ UNCHANGED <<settingsVars, fs, now, since, arg, appVars>>

GetBoolCall ==
    /\ \E t \in GetTargets, def \in BOOLEAN :
          call' = [op |-> "GetBool", cat |-> t[1], key |-> t[2], def |-> def,
                   ret |-> GetBool(m_data, t[1], t[2], def)]
    /\ UNCHANGED <<settingsVars, fs, now, since, arg, appVars>>

NextGet ==
    \/ AppendChar
    \/ PickSample
    \/ StoreCall
    \/ GetStringCall
    \/ GetIntCall
    \/ GetDoubleCall
    \/ GetBoolCall

SpecGet == InitGet /\ [][NextGet]_vars

(***************************************************************************)
(* What the getters are expected to return, stated on the stored text.     *)
(***************************************************************************)

\* The stored string a getter call looked at, if there is one.
Present(data, cat, key) == cat \in DOMAIN data /\ key \in DOMAIN data[cat]

\* The text after the leading blanks and one optional sign.
NumBody(s) ==
    LET ns == {i \in 1..Len(s) : ~IsSpace(s[i])}
        b  == IF ns = {} THEN <<>> ELSE SubSeq(s, SetMin(ns), Len(s))
    IN IF b # <<>> /\ b[1] \in {"+", "-"} THEN SubSeq(b, 2, Len(b)) ELSE b

NumNegative(s) ==
    LET ns == {i \in 1..Len(s) : ~IsSpace(s[i])}
    IN ns # {} /\ s[SetMin(ns)] = "-"

\* Length of the longest run of digits at the start of b.
DigitRun(b) == SetMax({k \in 0..Len(b) : \A i \in 1..k : IsDigit(b[i])})

\* The digits without leading zeros.
Significant(ds) ==
    LET nz == {i \in 1..Len(ds) : ds[i] # "0"}
    IN IF nz = {} THEN <<>> ELSE SubSeq(ds, SetMin(nz), Len(ds))

\* ds <= es for digit strings of equal length.
DigitsLeq(ds, es) ==
    \/ ds = es
    \/ \E i \in 1..Len(ds) :
          /\ \A j \in 1..(i - 1) : ds[j] = es[j]
          /\ DigitVal(ds[i]) < DigitVal(es[i])

RECURSIVE DecValue(_)
DecValue(ds) ==
    IF ds = <<>> THEN 0 ELSE DecValue(SubSeq(ds, 1, Len(ds) - 1)) * 10 + DigitVal(ds[Len(ds)])

S_IntMaxDigits == <<"2", "1", "4", "7", "4", "8", "3", "6", "4", "7">>
S_IntMinDigits == <<"2", "1", "4", "7", "4", "8", "3", "6", "4", "8">>

\* The int that the text starts with: [ok, val]; ok is FALSE when there is
\* no digit after the optional sign or the number does not fit an int.
LeadingInt(s) ==
    LET b   == NumBody(s)
        n   == DigitRun(b)
        sig == Significant(SubSeq(b, 1, n))
        lim == IF NumNegative(s) THEN S_IntMinDigits ELSE S_IntMaxDigits
    IN IF n = 0 THEN [ok |-> FALSE, val |-> 0]
       ELSE IF Len(sig) > Len(lim) \/ (Len(sig) = Len(lim) /\ ~DigitsLeq(sig, lim))
            THEN [ok |-> FALSE, val |-> 0]
       ELSE IF sig = S_IntMinDigits THEN [ok |-> TRUE, val |-> INT_MIN]
       ELSE [ok |-> TRUE,
             val |-> IF NumNegative(s) THEN -DecValue(sig) ELSE DecValue(sig)]

\* The decimal number that the text starts with, in units of 1 / DblScale.
LeadingDecimal(s) ==
    LET b    == NumBody(s)
        n    == DigitRun(b)
        dot  == n < Len(b) /\ b[n + 1] = "."
        fr   == IF dot THEN SubSeq(b, n + 2, Len(b)) ELSE <<>>
        m    == DigitRun(fr)
        kept == IF m > DblDecimals THEN DblDecimals ELSE m
        sig  == Significant(SubSeq(b, 1, n))
        mag  == DecValue(sig) * DblScale
                + DecValue(SubSeq(fr, 1, kept)) * (10 ^ (DblDecimals - kept))
    IN IF n = 0 /\ m = 0 THEN [ok |-> FALSE, val |-> 0]
       ELSE IF Len(sig) > 3 \/ DecValue(sig) > DblMaxInt THEN [ok |-> FALSE, val |-> 0]
       ELSE [ok |-> TRUE, val |-> IF NumNegative(s) THEN -mag ELSE mag]

\* The text is no number on any reading: it has no digit at all, or it has a
\* character that is neither a digit, a sign, a decimal point nor a blank.
ClearlyMalformed(s) ==
    \/ \A i \in 1..Len(s) : ~IsDigit(s[i])
    \/ \E i \in 1..Len(s) : ~IsDigit(s[i]) /\ s[i] \notin {"+", "-", ".", " ", "\t"}

SameIgnoringCase(s, w) ==
    /\ Len(s) = Len(w)
    /\ \A i \in 1..Len(s) :
          \/ s[i] = w[i]
          \/ \E j \in 1..Len(LowerCase) : LowerCase[j] = w[i] /\ UpperCase[j] = s[i]

TrueWords == {S_1, S_true, S_on, S_yes}

FalseWords == {S_0, S_false, S_off, S_no}

\* C7: GetBool is a total three-way map.  A stored string that is, letter
\* case aside, one of 1/true/on/yes gives TRUE, one of 0/false/off/no gives
\* FALSE, whatever the default; any other string and an absent category or
\* key give the default.
C7_GetBoolThreeWay ==
    call.op = "GetBool" =>
        call.ret =
            IF ~Present(m_data, call.cat, call.key) THEN call.def
            ELSE IF \E w \in TrueWords : SameIgnoringCase(m_data[call.cat][call.key], w)
                 THEN TRUE
            ELSE IF \E w \in FalseWords : SameIgnoringCase(m_data[call.cat][call.key], w)
                 THEN FALSE
            ELSE call.def

\* GetBool on a stored word that is not all lower case overrides the default.
C7_Witness ==
    /\ call.op = "GetBool"
    /\ Present(m_data, call.cat, call.key)
    /\ m_data[call.cat][call.key] # ToLower(m_data[call.cat][call.key])
    /\ call.def = FALSE
    /\ call.ret = TRUE

(***************************************************************************)
(* Part 8.  The typed setters: SpecSet applies up to MaxSets setter calls  *)
(* to a small document and remembers the document before the last call.   *)
(***************************************************************************)

MaxSets == 2

SetCats == {S_Render, S_Clear}

SetKeys == {S_VSync, S_R}

StringValues == {<<"x">>, <<" ", "a", "=", "b", " ">>}

IntValues == {250, -7, INT_MIN}

\* 0.0000004, 0.0000015, 2.5 and -0.0500001
DoubleValues == {4, 15, Dbl(2, 5000000), -Dbl(0, 500001)}

\* The documents the calls start from: a new Settings, and one that holds
\* [Clear] R=0.05 (the result of Parse on that text).
SetStartDocs ==
    {EmptyData, Parse(<<"[">> \o S_Clear \o <<"]", "\n">> \o S_R \o <<"=", "0", ".", "0", "5">>).data}

InitSet ==
    /\ m_data \in SetStartDocs
    /\ m_path = ""
    /\ m_lastWriteTime = 0
    /\ AppConstructed
    /\ fs = << >>
    /\ now = 0
    /\ call = NoCall
    /\ since = NoSince
    /\ arg = [n |-> 0]

SetStringCall ==
    /\ arg.n < MaxSets
    /\ \E c \in SetCats, k \in SetKeys, v \in StringValues :
          /\ m_data' = SetString(m_data, c, k, v)
          /\ call' = [op |-> "SetString", cat |-> c, key |-> k, val |-> v, pre |-> m_data]
    /\ arg' = [n |-> arg.n + 1]
    /\ UNCHANGED <<m_path, m_lastWriteTime, fs, now, since, appVars>>

SetDoubleCall ==
    /\ arg.n < MaxSets
    /\ \E c \in SetCats, k \in SetKeys, v \in DoubleValues :
          /\ m_data' = SetDouble(m_data, c, k, v)
          /\ call' = [op |-> "SetDouble", cat |-> c, key |-> k, val |-> v, pre |-> m_data]
    /\ arg' = [n |-> arg.n + 1]
    /\ UNCHANGED <<m_path, m_lastWriteTime, fs, now, since, appVars>>

SetIntCall ==
    /\ arg.n < MaxSets
    /\ \E c \in SetCats, k \in SetKeys, v \in IntValues :
          /\ m_data' = SetInt(m_data, c, k, v)
          /\ call' = [op |-> "SetInt", cat |-> c, key |-> k, val |-> v, pre |-> m_data]
    /\ arg' = [n |-> arg.n + 1]
    /\ UNCHANGED <<m_path, m_lastWriteTime, fs, now, since, appVars>>

SetBoolCall ==
    /\ arg.n < MaxSets
    /\ \E c \in SetCats, k \in SetKeys, v \in BOOLEAN :
          /\ m_data' = SetBool(m_data, c, k, v)
          /\ call' = [op |-> "SetBool", cat |-> c, key |-> k, val |-> v, pre |-> m_data]
    /\ arg' = [n |-> arg.n + 1]
    /\ UNCHANGED <<m_path, m_lastWriteTime, fs, now, since, appVars>>

NextSet ==
    \/ SetStringCall
    \/ SetDoubleCall
    \/ SetIntCall
    \/ SetBoolCall

SpecSet == InitSet /\ [][NextSet]_vars

\* Half a unit of the last decimal that to_string prints.
HalfLastDecimal == (10 ^ (DblDecimals - ToStringDecimals)) \div 2

Abs(x) == IF x < 0 THEN -x ELSE x

\* C5: Set/Get round trip.  After SetString/SetInt/SetBool/SetDouble(c, k, v)
\* the matching getter returns v for (c, k) whatever the default (for a
\* double, v to within half a unit of the last decimal of the stored text),
\* the category exists, and every other (category, key) reads as before.
C5_SetGetRoundTrip ==
    call.op \in {"SetString", "SetInt", "SetBool", "SetDouble"} =>
        /\ call.cat \in DOMAIN m_data
        /\ call.op = "SetString" =>
              GetString(m_data, call.cat, call.key) = [has |-> TRUE, val |-> call.val]
        /\ call.op = "SetInt" =>
              \A def \in IntDefaults \cup IntValues :
                 GetInt(m_data, call.cat, call.key, def) = call.val
        /\ call.op = "SetBool" =>
              \A def \in BOOLEAN : GetBool(m_data, call.cat, call.key, def) = call.val
        /\ call.op = "SetDouble" =>
              \A def \in DblDefaults \cup DoubleValues :
                 Abs(GetDouble(m_data, call.cat, call.key, def) - call.val)
                    <= HalfLastDecimal
        /\ \A c \in SetCats \cup DOMAIN call.pre \cup DOMAIN m_data :
              \A k \in SetKeys :
                 <<c, k>> # <<call.cat, call.key>> =>
                    GetString(m_data, c, k) = GetString(call.pre, c, k)

\* SetDouble overwrites an earlier value of the key, next to another entry
\* that stays, with a value that the stored text holds only approximately.
C5_Witness ==
    /\ call.op = "SetDouble"
    /\ Present(call.pre, call.cat, call.key)
    /\ call.pre[call.cat][call.key] # m_data[call.cat][call.key]
    /\ GetDouble(m_data, call.cat, call.key, 0) # call.val
    /\ \E c \in DOMAIN call.pre : \E k \in DOMAIN call.pre[c] :
          <<c, k>> # <<call.cat, call.key>> /\ Present(m_data, c, k)

(***************************************************************************)
(* Part 9.  The file system, and Load, ReloadIfChanged and Save.           *)
(***************************************************************************)

\* The path DxApp passes to Load.
SettingsPath == "settings.ini"

FilePaths == {SettingsPath}

\* A path that names no file.
NoFile == [exists |-> FALSE, content |-> <<>>, mtime |-> 0, locked |-> FALSE]

\* std::filesystem::exists(p); the empty path names nothing.
FileExists(files, p) == p \in DOMAIN files /\ files[p].exists

\* std::filesystem::last_write_time(p)
LastWriteTime(files, p) == files[p].mtime

\* Whether std::ifstream / std::ofstream can open the file: a file that
\* another process holds locked cannot be opened.
CanOpen(files, p) == ~files[p].locked

\* A Parse that forgets m_data.clear().
ParseMember_NoClear(data, text) ==
    [ok   |-> TRUE,
     data |-> ParseLines([data |-> data, currentCat |-> S_Default],
                         SplitLines(text)).data]

\* Parse as the member function it is: whatever m_data held is cleared.
ParseMember(data, text) == Parse(text)

\* A Load that remembers the path only when it succeeds.
LoadResult_PathOnSuccess(data, path, time, files, p) ==
    IF ~FileExists(files, p)
    THEN [ret |-> FALSE, data |-> data, path |-> path, time |-> time]
    ELSE IF ~CanOpen(files, p)
    THEN [ret |-> FALSE, data |-> data, path |-> path, time |-> time]
    ELSE LET r == ParseMember(data, files[p].content)
         IN IF ~r.ok
            THEN [ret |-> FALSE, data |-> r.data, path |-> p, time |-> time]
            ELSE [ret |-> TRUE, data |-> r.data, path |-> p,
                  time |-> LastWriteTime(files, p)]

\* bool Settings::Load(path): the members and the result after the call.
LoadResult(data, path, time, files, p) ==
    IF ~FileExists(files, p)
    THEN [ret |-> FALSE, data |-> data, path |-> p, time |-> time]
    ELSE IF ~CanOpen(files, p)
    THEN [ret |-> FALSE, data |-> data, path |-> p, time |-> time]
    ELSE LET r == ParseMember(data, files[p].content)
         IN IF ~r.ok
            THEN [ret |-> FALSE, data |-> r.data, path |-> p, time |-> time]
            ELSE [ret |-> TRUE, data |-> r.data, path |-> p,
                  time |-> LastWriteTime(files, p)]

\* A reload that re-parses whenever the file exists.
ReloadResult_NoCompare(data, path, time, files) ==
    IF path = "" \/ ~FileExists(files, path)
    THEN [ret |-> FALSE, data |-> data, time |-> time]
    ELSE IF ~CanOpen(files, path)
    THEN [ret |-> FALSE, data |-> data, time |-> time]
    ELSE [ret |-> TRUE, data |-> ParseMember(data, files[path].content).data,
          time |-> LastWriteTime(files, path)]

\* A reload that forgets m_lastWriteTime = now.
ReloadResult_NoStamp(data, path, time, files) ==
    IF path = "" \/ ~FileExists(files, path)
    THEN [ret |-> FALSE, data |-> data, time |-> time]
    ELSE IF LastWriteTime(files, path) # time
    THEN IF ~CanOpen(files, path)
         THEN [ret |-> FALSE, data |-> data, time |-> time]
         ELSE [ret |-> TRUE, data |-> ParseMember(data, files[path].content).data,
               time |-> time]
    ELSE [ret |-> FALSE, data |-> data, time |-> time]

\* bool Settings::ReloadIfChanged(): the members and the result after the call.
ReloadResult(data, path, time, files) ==
    IF path = "" \/ ~FileExists(files, path)
    THEN [ret |-> FALSE, data |-> data, time |-> time]
    ELSE LET nowT == LastWriteTime(files, path)
         IN IF nowT # time
            THEN IF ~CanOpen(files, path)
                 THEN [ret |-> FALSE, data |-> data, time |-> time]
                 ELSE LET r == ParseMember(data, files[path].content)
                      IN IF ~r.ok
                         THEN [ret |-> FALSE, data |-> r.data, time |-> time]
                         ELSE [ret |-> TRUE, data |-> r.data, time |-> nowT]
            ELSE [ret |-> FALSE, data |-> data, time |-> time]

RECURSIVE SerializeKeys(_, _)
\* for (auto& [k, v] : kv) ofs << k << "=" << v << "\n";
SerializeKeys(kv, ks) ==
    IF ks = <<>> THEN <<>>
    ELSE Head(ks) \o <<"=">> \o kv[Head(ks)] \o <<"\n">> \o SerializeKeys(kv, Tail(ks))

RECURSIVE Serialize_NoHeader(_, _, _)
\* A Save that forgets the "[cat]" lines.
Serialize_NoHeader(data, cs, ko) ==
    IF cs = <<>> THEN <<>>
    ELSE SerializeKeys(data[Head(cs)], ko[Head(cs)]) \o <<"\n">>
         \o Serialize_NoHeader(data, Tail(cs), ko)

RECURSIVE Serialize(_, _, _)
\* The text Save writes when the maps are iterated in the orders cs and ko.
Serialize(data, cs, ko) ==
    IF cs = <<>> THEN <<>>
    ELSE <<"[">> \o Head(cs) \o <<"]", "\n">>
         \o SerializeKeys(data[Head(cs)], ko[Head(cs)]) \o <<"\n">>
         \o Serialize(data, Tail(cs), ko)

\* The orders in which an unordered_map may iterate over the set S.
Orders(S) == {o \in [1..Cardinality(S) -> S] : \A x \in S : \E i \in 1..Cardinality(S) : o[i] = x}

KeyOrders(data) ==
    {ko \in [DOMAIN data -> UNION {Orders(DOMAIN data[c]) : c \in DOMAIN data}] :
        \A c \in DOMAIN data : ko[c] \in Orders(DOMAIN data[c])}

\* Every text Save may write for the document: the iteration order of an
\* unordered_map is unspecified.
SaveTexts(data) ==
    {Serialize(data, cs, ko) : cs \in Orders(DOMAIN data), ko \in KeyOrders(data)}

\* A Save that forgets to refresh m_lastWriteTime.
SaveResult_NoStamp(data, path, time, files, clock, text) ==
    IF path = "" THEN [ret |-> FALSE, files |-> files, time |-> time]
    ELSE IF FileExists(files, path) /\ ~CanOpen(files, path)
    THEN [ret |-> FALSE, files |-> files, time |-> time]
    ELSE [ret |-> TRUE,
          files |-> [files EXCEPT ![path] =
                        [exists |-> TRUE, content |-> text, mtime |-> clock, locked |-> FALSE]],
          time |-> time]

\* A Save that reports success although the file could not be opened.
SaveResult_IgnoreOpen(data, path, time, files, clock, text) ==
    IF path = "" THEN [ret |-> FALSE, files |-> files, time |-> time]
    ELSE IF FileExists(files, path) /\ ~CanOpen(files, path)
    THEN [ret |-> TRUE, files |-> files, time |-> time]
    ELSE [ret |-> TRUE,
          files |-> [files EXCEPT ![path] =
                        [exists |-> TRUE, content |-> text, mtime |-> clock, locked |-> FALSE]],
          time |-> clock]

\* bool Settings::Save(): the file system, m_lastWriteTime and the result
\* after the call; text is what the two loops wrote, clock the time of the write.
SaveResult(data, path, time, files, clock, text) ==
    IF path = "" THEN [ret |-> FALSE, files |-> files, time |-> time]
    ELSE IF FileExists(files, path) /\ ~CanOpen(files, path)
    THEN [ret |-> FALSE, files |-> files, time |-> time]
    ELSE LET written == [files EXCEPT ![path] =
                            [exists |-> TRUE, content |-> text, mtime |-> clock,
                             locked |-> FALSE]]
         IN [ret |-> TRUE,
             files |-> written,
             time |-> IF FileExists(written, path) THEN LastWriteTime(written, path)
                      ELSE time]

(***************************************************************************)
(* Part 10.  Spec: a Settings object used through its public members,      *)
(* next to other processes that write, delete and lock the file.           *)
(***************************************************************************)

MaxTime == 2

\* "[Render]\nVSync=0 ; c\n" and "R=1\n"
ExternalTexts ==
    { <<"[", "R", "e", "n", "d", "e", "r", "]", "\n", "V", "S", "y", "n", "c", "=", "0", " ", ";", " ", "c", "\n">>,
      <<"R", "=", "1", "\n">> }

\* The file as the program may find it when it starts.
InitialFiles ==
    {NoFile,
     [exists |-> TRUE, content |-> <<"[", "R", "e", "n", "d", "e", "r", "]", "\n", "V", "S", "y", "n", "c", "=", "0", " ", ";", " ", "c", "\n">>,
      mtime |-> 1, locked |-> FALSE]}

Init ==
    /\ SettingsConstructed
    /\ AppConstructed
    /\ fs \in [FilePaths -> InitialFiles]
    /\ now = 1
    /\ call = NoCall
    /\ since = NoSince
    /\ arg = [n |-> 0]

\* Some (category, key) of the document before the call is gone after it.
Dropped(before, after) ==
    \E c \in DOMAIN before : \E k \in DOMAIN before[c] : ~Present(after, c, k)

LoadStep ==
    /\ \E p \in FilePaths \cup {""} :
          LET r == LoadResult(m_data, m_path, m_lastWriteTime, fs, p)
          IN /\ m_data' = r.data
             /\ m_path' = r.path
             /\ m_lastWriteTime' = r.time
             /\ call' = [op |-> "Load", ret |-> r.ret, dropped |-> Dropped(m_data, r.data)]
    /\ since' = NoSince
    /\ UNCHANGED <<fs, now, arg, appVars>>

ReloadIfChangedStep ==
    /\ LET r == ReloadResult(m_data, m_path, m_lastWriteTime, fs)
       IN /\ m_data' = r.data
          /\ m_lastWriteTime' = r.time
          /\ call' = [op |-> "ReloadIfChanged", ret |-> r.ret,
                      dropped |-> Dropped(m_data, r.data),
                      first |-> since.reload, wrote |-> since.wrote,
                      access |-> since.access]
          /\ since' = [since EXCEPT !.reload = IF r.ret THEN "true" ELSE "false",
                                    !.wrote = FALSE, !.access = FALSE]
    /\ UNCHANGED <<m_path, fs, now, arg, appVars>>

SaveStep ==
    /\ \E text \in SaveTexts(m_data) :
          LET r == SaveResult(m_data, m_path, m_lastWriteTime, fs, now, text)
          IN /\ fs' = r.files
             /\ m_lastWriteTime' = r.time
             /\ call' = [op |-> "Save", ret |-> r.ret]
             /\ since' = [reload |-> "none", wrote |-> FALSE, access |-> FALSE,
                          saved |-> r.ret \/ since.saved]
    /\ UNCHANGED <<m_data, m_path, now, arg, appVars>>

\* A setter was called: the next ReloadIfChanged is no consecutive one.
AfterSet == [since EXCEPT !.reload = "none", !.wrote = FALSE, !.access = FALSE]

SetStringStep ==
    /\ m_data' = SetString(m_data, S_Render, S_VSync, <<"x">>)
    /\ call' = [op |-> "SetString"]
    /\ since' = AfterSet
    /\ UNCHANGED <<m_path, m_lastWriteTime, fs, now, arg, appVars>>

SetDoubleStep ==
    /\ m_data' = SetDouble(m_data, S_Render, S_VSync, Dbl(2, 5000000))
    /\ call' = [op |-> "SetDouble"]
    /\ since' = AfterSet
    /\ UNCHANGED <<m_path, m_lastWriteTime, fs, now, arg, appVars>>

SetIntStep ==
    /\ m_data' = SetInt(m_data, S_Render, S_VSync, 250)
    /\ call' = [op |-> "SetInt"]
    /\ since' = AfterSet
    /\ UNCHANGED <<m_path, m_lastWriteTime, fs, now, arg, appVars>>

SetBoolStep ==
    /\ \E v \in BOOLEAN : m_data' = SetBool(m_data, S_Render, S_VSync, v)
    /\ call' = [op |-> "SetBool"]
    /\ since' = AfterSet
    /\ UNCHANGED <<m_path, m_lastWriteTime, fs, now, arg, appVars>>

\* The history variables follow the file while the Settings object is used
\* on its own; once DxApp runs, the frame's log is the history.
Observed(x, none) == IF pc = "new" THEN x ELSE none

\* Another process writes the file; its modification time is the clock's.
ExternalWriteOf(texts) ==
    /\ \E p \in FilePaths, t \in texts :
          /\ ~fs[p].locked
          /\ fs' = [fs EXCEPT ![p] =
                       [exists |-> TRUE, content |-> t, mtime |-> now, locked |-> FALSE]]
          /\ since' = Observed(IF p = m_path
                               THEN [since EXCEPT !.wrote = TRUE, !.saved = FALSE]
                               ELSE since, NoSince)
    /\ call' = Observed([op |-> "ExternalWrite"], NoCall)
    /\ UNCHANGED <<settingsVars, now, arg, appVars>>

ExternalWrite == ExternalWriteOf(ExternalTexts)

\* Another process deletes the file.
ExternalDelete ==
    /\ \E p \in FilePaths :
          /\ fs[p].exists /\ ~fs[p].locked
          /\ fs' = [fs EXCEPT ![p] = NoFile]
    /\ call' = Observed([op |-> "ExternalDelete"], NoCall)
    /\ UNCHANGED <<settingsVars, now, since, arg, appVars>>

\* Another process takes or releases an exclusive lock on the file.
ExternalLock ==
    /\ \E p \in FilePaths :
          /\ fs[p].exists
          /\ fs' = [fs EXCEPT ![p].locked = ~@]
          /\ since' = Observed(IF p = m_path THEN [since EXCEPT !.access = TRUE] ELSE since,
                               NoSince)
    /\ call' = Observed([op |-> "ExternalLock"], NoCall)
    /\ UNCHANGED <<settingsVars, now, arg, appVars>>

\* Time passes.
Tick ==
    /\ now < MaxTime
    /\ now' = now + 1
    /\ call' = Observed([op |-> "Tick"], NoCall)
    /\ UNCHANGED <<settingsVars, fs, since, arg, appVars>>

Next ==
    \/ LoadStep
    \/ ReloadIfChangedStep
    \/ SaveStep
    \/ SetStringStep
    \/ SetDoubleStep
    \/ SetIntStep
    \/ SetBoolStep
    \/ ExternalWrite
    \/ ExternalDelete
    \/ ExternalLock
    \/ Tick

Spec == Init /\ [][Next]_vars

\* C1: ReloadIfChanged returns false and changes nothing (document, path,
\* stored timestamp, file) whenever no path was loaded, the file does not
\* exist, or the stored timestamp equals the file's; when it returns true
\* the file existed with another timestamp, was parsed, and the document is
\* that parse and the stored timestamp the file's.
C1_ReloadSilentUnlessChanged ==
    [][call'.op = "ReloadIfChanged" =>
         /\ (\/ m_path = ""
             \/ ~FileExists(fs, m_path)
             \/ m_lastWriteTime = LastWriteTime(fs, m_path))
            => (call'.ret = FALSE /\ UNCHANGED <<m_data, m_path, m_lastWriteTime, fs>>)
         /\ call'.ret = TRUE =>
               /\ m_path # "" /\ FileExists(fs, m_path)
               /\ m_lastWriteTime # LastWriteTime(fs, m_path)
               /\ m_data' = Parse(fs[m_path].content).data
               /\ m_lastWriteTime' = LastWriteTime(fs, m_path)
               /\ UNCHANGED <<m_path, fs>>
    ]_vars

\* ReloadIfChanged returned false on equal timestamps although the file was
\* rewritten (within the clock's resolution) with another content.
C1_Witness ==
    /\ call.op = "ReloadIfChanged"
    /\ call.ret = FALSE
    /\ m_path # ""
    /\ FileExists(fs, m_path)
    /\ CanOpen(fs, m_path)
    /\ m_lastWriteTime = LastWriteTime(fs, m_path)
    /\ m_data # Parse(fs[m_path].content).data

\* C2 as stated: the second of two consecutive ReloadIfChanged calls with no
\* write to the file between them returns false and leaves the document.
C2_Original ==
    [][(/\ call'.op = "ReloadIfChanged"
        /\ since.reload # "none"
        /\ ~since.wrote)
       => (call'.ret = FALSE /\ m_data' = m_data)
    ]_vars

\* C2 as amended: of two consecutive ReloadIfChanged calls with no write to
\* the file between them at most one returns true; the second returns false
\* if the first returned true or if the file did not change between openable
\* and not openable in between; and a second call that returns false leaves
\* the document unchanged.
C2_ReloadIdempotent ==
    [][(/\ call'.op = "ReloadIfChanged"
        /\ since.reload # "none"
        /\ ~since.wrote)
       => /\ ~(since.reload = "true" /\ call'.ret = TRUE)
          /\ (since.reload = "true" \/ ~since.access) => call'.ret = FALSE
          /\ call'.ret = FALSE => m_data' = m_data
    ]_vars

\* The second of two consecutive calls, after a first that reloaded.
C2_Witness ==
    /\ call.op = "ReloadIfChanged"
    /\ call.first = "true"
    /\ ~call.wrote
    /\ call.ret = FALSE

\* C3: Load and ReloadIfChanged replace, never merge.  After a call that
\* returns true the document is exactly the parse of the file's content, so
\* every entry that the file does not have is gone; after a call that
\* returns false the document is what it was.
C3_ReplaceNeverMerge ==
    [][call'.op \in {"Load", "ReloadIfChanged"} =>
         /\ call'.ret = TRUE =>
               /\ m_data' = Parse(fs[m_path'].content).data
               /\ \A c \in DOMAIN m_data : \A k \in DOMAIN m_data[c] :
                     Present(m_data', c, k)
                        => Present(Parse(fs[m_path'].content).data, c, k)
         /\ call'.ret = FALSE => m_data' = m_data
    ]_vars

\* A successful Load dropped an entry that the file does not have.
C3_Witness ==
    /\ call.op = "Load"
    /\ call.ret = TRUE
    /\ call.dropped
    /\ m_data = Parse(fs[m_path].content).data
    /\ m_data # EmptyData

\* C4: Save returns false exactly when no path is set or the file cannot be
\* opened for writing, and then changes neither file nor members; otherwise
\* it returns true, the file exists and holds one serialization of the
\* whole document and nothing else, and the stored timestamp is the file's.
\* A ReloadIfChanged after a successful Save, with no write from outside
\* and no Load in between, returns false and leaves the document unchanged.
C4_SaveThenReloadQuiet ==
    [][/\ call'.op = "Save" =>
            IF m_path = "" \/ (FileExists(fs, m_path) /\ ~CanOpen(fs, m_path))
            THEN call'.ret = FALSE /\ UNCHANGED <<fs, m_data, m_path, m_lastWriteTime>>
            ELSE /\ call'.ret = TRUE
                 /\ FileExists(fs', m_path)
                 /\ fs'[m_path].content \in SaveTexts(m_data)
                 /\ m_lastWriteTime' = LastWriteTime(fs', m_path)
                 /\ UNCHANGED <<m_data, m_path>>
       /\ (since.saved /\ call'.op = "ReloadIfChanged")
            => (call'.ret = FALSE /\ m_data' = m_data)
    ]_vars

\* A ReloadIfChanged found nothing to do after Save rewrote a file that had
\* been written from outside at an earlier time.
C4_Witness ==
    /\ call.op = "ReloadIfChanged"
    /\ call.ret = FALSE
    /\ since.saved
    /\ FileExists(fs, m_path)
    /\ CanOpen(fs, m_path)
    /\ fs[m_path].content \in SaveTexts(m_data)
    /\ fs[m_path].content \notin ExternalTexts
    /\ m_data # EmptyData

(***************************************************************************)
(* Part 11.  DxApp: Init, and Render as the four stages of one frame.      *)
(***************************************************************************)

S_HotReloadIntervalMs == <<"H", "o", "t", "R", "e", "l", "o", "a", "d", "I", "n", "t", "e", "r", "v", "a", "l", "M", "s">>
S_G == <<"G">>
S_B == <<"B">>
S_A == <<"A">>
S_Triangle == <<"T", "r", "i", "a", "n", "g", "l", "e">>
S_Scale == <<"S", "c", "a", "l", "e">>
S_RotationSpeed == <<"R", "o", "t", "a", "t", "i", "o", "n", "S", "p", "e", "e", "d">>
S_TintR == <<"T", "i", "n", "t", "R">>
S_TintG == <<"T", "i", "n", "t", "G">>
S_TintB == <<"T", "i", "n", "t", "B">>

\* F applied to the value of e, which is computed once.
Bind(e, F(_)) == CHOOSE y \in {F(x) : x \in {e}} : TRUE

\* (float)x: a float keeps about FloatDigits significant decimal digits.
FloatDigits == 7

RECURSIVE RoundToDigits(_, _)
\* v (>= 0) rounded to at most n significant decimal digits.
RoundToDigits(v, n) ==
    IF v < 10 ^ n THEN v
    ELSE LET q == RoundToDigits((v + 5) \div 10, n) IN q * 10

ToFloat(v) == IF v < 0 THEN -RoundToDigits(-v, FloatDigits) ELSE RoundToDigits(v, FloatDigits)

\* The runtime parameters as one record.
Params == [vsync |-> m_vsync, interval |-> m_hotReloadIntervalMs, clear |-> m_clear,
           scale |-> m_scale, speed |-> m_speed, tint |-> m_tint]

\* The reads of UpdateFromSettings (lines 291-303).
UpdatedParams(data) ==
    [vsync    |-> IF GetBool(data, S_Render, S_VSync, TRUE) THEN 1 ELSE 0,
     interval |-> GetInt(data, S_Render, S_HotReloadIntervalMs, 500),
     clear    |-> <<ToFloat(GetDouble(data, S_Clear, S_R, Dbl(0, 500000))),
                    ToFloat(GetDouble(data, S_Clear, S_G, Dbl(0, 1000000))),
                    ToFloat(GetDouble(data, S_Clear, S_B, Dbl(0, 2000000))),
                    ToFloat(GetDouble(data, S_Clear, S_A, Dbl(1, 0)))>>,
     scale    |-> ToFloat(GetDouble(data, S_Triangle, S_Scale, Dbl(1, 0))),
     speed    |-> ToFloat(GetDouble(data, S_Triangle, S_RotationSpeed, Dbl(1, 0))),
     tint     |-> <<ToFloat(GetDouble(data, S_Triangle, S_TintR, Dbl(1, 0))),
                    ToFloat(GetDouble(data, S_Triangle, S_TintG, Dbl(1, 0))),
                    ToFloat(GetDouble(data, S_Triangle, S_TintB, Dbl(1, 0)))>>]

\* void DxApp::UpdateFromSettings(onDemandReload): the store [data, time]
\* and the parameters after the call.
UpdateFromSettings(onDemandReload, data, path, time, files) ==
    Bind(IF onDemandReload THEN ReloadResult(data, path, time, files)
         ELSE [ret |-> FALSE, data |-> data, time |-> time],
         LAMBDA r : [data |-> r.data, time |-> r.time, params |-> UpdatedParams(r.data)])

\* The keys of the render loop in one fixed order, and the categories.
SchemaKeys == <<S_VSync, S_HotReloadIntervalMs, S_R, S_G, S_B, S_A,
                S_Scale, S_RotationSpeed, S_TintR, S_TintG, S_TintB>>

SchemaCats == <<S_Render, S_Clear, S_Triangle, S_Default>>

Reverse(q) == [i \in 1..Len(q) |-> q[Len(q) + 1 - i]]

InSeq(q, x) == \E i \in 1..Len(q) : q[i] = x

\* The members of S in the order of q when q lists them all, in some fixed
\* order otherwise.
OrderBy(q, S) ==
    IF \A x \in S : InSeq(q, x) THEN SelectSeq(q, LAMBDA x : x \in S)
    ELSE CHOOSE o \in Orders(S) : TRUE

\* The widgets of the panel, in the order DrawImGui submits them.
EditWidgets == {"VSync", "HotReloadIntervalMs", "ClearColor", "Scale", "RotationSpeed", "Tint"}

Widgets == EditWidgets \cup {"Save", "Reload"}

\* What the widgets hand back when the user moves them.
IntervalInputs == {100, 2000}
ClearInputs == {<<0, 0, 0, Dbl(1, 0)>>}
ScaleInputs == {Dbl(5, 0)}
SpeedInputs == {-Dbl(10, 0)}
TintInputs == {<<Dbl(1, 0), 0, 0>>}

PanelInputs ==
    [interval : IntervalInputs, clear : ClearInputs, scale : ScaleInputs,
     speed : SpeedInputs, tint : TintInputs]

Event(e, r) == [ev |-> e, ret |-> r]

\* A panel whose VSync checkbox changes the member and not the document.
PanelEdits_NoStore(data, P, clicked, inp) ==
    LET p1 == IF "VSync" \in clicked
              THEN [P EXCEPT !.vsync = IF P.vsync # 0 THEN 0 ELSE 1] ELSE P
        d1 == data
        p2 == IF "HotReloadIntervalMs" \in clicked
              THEN [p1 EXCEPT !.interval = inp.interval] ELSE p1
        d2 == IF "HotReloadIntervalMs" \in clicked
              THEN SetInt(d1, S_Render, S_HotReloadIntervalMs, p2.interval) ELSE d1
        p3 == IF "ClearColor" \in clicked THEN [p2 EXCEPT !.clear = inp.clear] ELSE p2
        d3 == IF "ClearColor" \in clicked
              THEN SetDouble(SetDouble(SetDouble(SetDouble(d2,
                       S_Clear, S_R, p3.clear[1]), S_Clear, S_G, p3.clear[2]),
                       S_Clear, S_B, p3.clear[3]), S_Clear, S_A, p3.clear[4])
              ELSE d2
        p4 == IF "Scale" \in clicked THEN [p3 EXCEPT !.scale = inp.scale] ELSE p3
        d4 == IF "Scale" \in clicked
              THEN SetDouble(d3, S_Triangle, S_Scale, p4.scale) ELSE d3
        p5 == IF "RotationSpeed" \in clicked THEN [p4 EXCEPT !.speed = inp.speed] ELSE p4
        d5 == IF "RotationSpeed" \in clicked
              THEN SetDouble(d4, S_Triangle, S_RotationSpeed, p5.speed) ELSE d4
        p6 == IF "Tint" \in clicked THEN [p5 EXCEPT !.tint = inp.tint] ELSE p5
        d6 == IF "Tint" \in clicked
              THEN SetDouble(SetDouble(SetDouble(d5,
                       S_Triangle, S_TintR, p6.tint[1]), S_Triangle, S_TintG, p6.tint[2]),
                       S_Triangle, S_TintB, p6.tint[3])
              ELSE d5
    IN [data |-> d6, params |-> p6,
        events |-> IF clicked \cap EditWidgets # {} THEN <<Event("set", TRUE)>> ELSE <<>>]

\* The widgets of lines 318-357: each one that reports a change stores the
\* new value in the member and in the document.
PanelEdits(data, P, clicked, inp) ==
    LET p1 == IF "VSync" \in clicked
              THEN [P EXCEPT !.vsync = IF P.vsync # 0 THEN 0 ELSE 1] ELSE P
        d1 == IF "VSync" \in clicked
              THEN SetBool(data, S_Render, S_VSync, p1.vsync # 0) ELSE data
        p2 == IF "HotReloadIntervalMs" \in clicked
              THEN [p1 EXCEPT !.interval = inp.interval] ELSE p1
        d2 == IF "HotReloadIntervalMs" \in clicked
              THEN SetInt(d1, S_Render, S_HotReloadIntervalMs, p2.interval) ELSE d1
        p3 == IF "ClearColor" \in clicked THEN [p2 EXCEPT !.clear = inp.clear] ELSE p2
        d3 == IF "ClearColor" \in clicked
              THEN SetDouble(SetDouble(SetDouble(SetDouble(d2,
                       S_Clear, S_R, p3.clear[1]), S_Clear, S_G, p3.clear[2]),
                       S_Clear, S_B, p3.clear[3]), S_Clear, S_A, p3.clear[4])
              ELSE d2
        p4 == IF "Scale" \in clicked THEN [p3 EXCEPT !.scale = inp.scale] ELSE p3
        d4 == IF "Scale" \in clicked
              THEN SetDouble(d3, S_Triangle, S_Scale, p4.scale) ELSE d3
        p5 == IF "RotationSpeed" \in clicked THEN [p4 EXCEPT !.speed = inp.speed] ELSE p4
        d5 == IF "RotationSpeed" \in clicked
              THEN SetDouble(d4, S_Triangle, S_RotationSpeed, p5.speed) ELSE d4
        p6 == IF "Tint" \in clicked THEN [p5 EXCEPT !.tint = inp.tint] ELSE p5
        d6 == IF "Tint" \in clicked
              THEN SetDouble(SetDouble(SetDouble(d5,
                       S_Triangle, S_TintR, p6.tint[1]), S_Triangle, S_TintG, p6.tint[2]),
                       S_Triangle, S_TintB, p6.tint[3])
              ELSE d5
    IN [data |-> d6, params |-> p6,
        events |-> IF clicked \cap EditWidgets # {} THEN <<Event("set", TRUE)>> ELSE <<>>]

\* The text Save writes when the maps iterate forwards or backwards.
SaveTextOf(data, rev) ==
    LET cs == OrderBy(SchemaCats, DOMAIN data)
        ko == [c \in DOMAIN data |-> OrderBy(SchemaKeys, DOMAIN data[c])]
    IN IF rev THEN Serialize(data, Reverse(cs), [c \in DOMAIN data |-> Reverse(ko[c])])
       ELSE Serialize(data, cs, ko)

\* A panel that saves only when the Save button is pressed.
DrawImGuiResult_SaveButtonOnly(data, path, time, files, clock, P, clicked, inp, rev) ==
    LET changed == "Save" \in clicked
        Loaded(ed) ==
            IF "Reload" \in clicked
            THEN Bind(LoadResult(ed.data, path, time, files, SettingsPath),
                      LAMBDA l : [ret |-> l.ret, data |-> l.data, path |-> l.path,
                                  time |-> l.time, params |-> UpdatedParams(l.data)])
            ELSE [ret |-> FALSE, data |-> ed.data, path |-> path, time |-> time,
                  params |-> ed.params]
        Saved(ld) ==
            IF changed
            THEN SaveResult(ld.data, ld.path, ld.time, files, clock, SaveTextOf(ld.data, rev))
            ELSE [ret |-> FALSE, files |-> files, time |-> ld.time]
        Result(ed, ld, sv) ==
            [data |-> ld.data, path |-> ld.path, time |-> sv.time, files |-> sv.files,
             params |-> ld.params,
             events |-> ed.events
                        \o (IF "Reload" \in clicked
                            THEN <<Event("load", ld.ret), Event("read", TRUE)>> ELSE <<>>)
                        \o (IF changed THEN <<Event("save", sv.ret)>> ELSE <<>>)]
    IN Bind(PanelEdits(data, P, clicked, inp),
            LAMBDA ed : Bind(Loaded(ed),
                             LAMBDA ld : Bind(Saved(ld), LAMBDA sv : Result(ed, ld, sv))))

\* void DxApp::DrawImGui(): the store, the file system, the parameters and
\* the calls made, for the widgets the user operated in this frame.
DrawImGuiResult(data, path, time, files, clock, P, clicked, inp, rev) ==
    LET changed == clicked \cap (EditWidgets \cup {"Save"}) # {}
        Loaded(ed) ==
            IF "Reload" \in clicked
            THEN Bind(LoadResult(ed.data, path, time, files, SettingsPath),
                      LAMBDA l : [ret |-> l.ret, data |-> l.data, path |-> l.path,
                                  time |-> l.time, params |-> UpdatedParams(l.data)])
            ELSE [ret |-> FALSE, data |-> ed.data, path |-> path, time |-> time,
                  params |-> ed.params]
        Saved(ld) ==
            IF changed
            THEN SaveResult(ld.data, ld.path, ld.time, files, clock, SaveTextOf(ld.data, rev))
            ELSE [ret |-> FALSE, files |-> files, time |-> ld.time]
        Result(ed, ld, sv) ==
            [data |-> ld.data, path |-> ld.path, time |-> sv.time, files |-> sv.files,
             params |-> ld.params,
             events |-> ed.events
                        \o (IF "Reload" \in clicked
                            THEN <<Event("load", ld.ret), Event("read", TRUE)>> ELSE <<>>)
                        \o (IF changed THEN <<Event("save", sv.ret)>> ELSE <<>>)]
    IN Bind(PanelEdits(data, P, clicked, inp),
            LAMBDA ed : Bind(Loaded(ed),
                             LAMBDA ld : Bind(Saved(ld), LAMBDA sv : Result(ed, ld, sv))))

\* A reload check that does not re-read the parameters after a reload.
RenderCheckResult_NoUpdate(gate, data, path, time, files, P) ==
    IF ~gate THEN [data |-> data, time |-> time, params |-> P, events |-> <<>>]
    ELSE Bind(ReloadResult(data, path, time, files),
              LAMBDA r : [data |-> r.data, time |-> r.time, params |-> P,
                          events |-> <<Event("reload", r.ret)>>])

\* Lines 386-396 of Render: the gated reload check.
RenderCheckResult(gate, data, path, time, files, P) ==
    IF ~gate THEN [data |-> data, time |-> time, params |-> P, events |-> <<>>]
    ELSE Bind(ReloadResult(data, path, time, files),
              LAMBDA r :
                 IF r.ret
                 THEN Bind(UpdateFromSettings(FALSE, r.data, path, r.time, files),
                           LAMBDA u : [data |-> u.data, time |-> u.time, params |-> u.params,
                                       events |-> <<Event("reload", TRUE), Event("read", TRUE)>>])
                 ELSE [data |-> r.data, time |-> r.time, params |-> P,
                       events |-> <<Event("reload", FALSE)>>])

MaxEdits == 1

\* "[Render]\nVSync=0\nHotReloadIntervalMs=250\n[Triangle]\nScale=2.5\n"
ExampleText ==
    <<"[", "R", "e", "n", "d", "e", "r", "]", "\n", "V", "S", "y", "n", "c", "=", "0", "\n", "H", "o", "t", "R", "e", "l", "o", "a", "d", "I", "n", "t", "e", "r", "v", "a", "l", "M", "s", "=", "2", "5", "0", "\n", "[", "T", "r", "i", "a", "n", "g", "l", "e", "]", "\n", "S", "c", "a", "l", "e", "=", "2", ".", "5", "\n">>

\* "[Render]\nVSync=maybe\nHotReloadIntervalMs=12abc\n[Clear]\nR=0.5\n"
OddText ==
    <<"[", "R", "e", "n", "d", "e", "r", "]", "\n", "V", "S", "y", "n", "c", "=", "m", "a", "y", "b", "e", "\n", "H", "o", "t", "R", "e", "l", "o", "a", "d", "I", "n", "t", "e", "r", "v", "a", "l", "M", "s", "=", "1", "2", "a", "b", "c", "\n", "[", "C", "l", "e", "a", "r", "]", "\n", "R", "=", "0", ".", "5", "\n">>

AppTexts == {ExampleText, OddText}

AppInitialFiles ==
    {NoFile, [exists |-> TRUE, content |-> ExampleText, mtime |-> 1, locked |-> FALSE]}

\* Milliseconds since the last check, as the steady clock may report them.
ElapsedInputs == {16, 300, 3000}

InitApp ==
    /\ SettingsConstructed
    /\ AppConstructed
    /\ fs \in [FilePaths -> AppInitialFiles]
    /\ now = 1
    /\ call = NoCall
    /\ since = NoSince
    /\ arg = [n |-> 0]

SetParams(P) ==
    /\ m_vsync' = P.vsync
    /\ m_hotReloadIntervalMs' = P.interval
    /\ m_clear' = P.clear
    /\ m_scale' = P.scale
    /\ m_speed' = P.speed
    /\ m_tint' = P.tint

\* bool DxApp::Init: Load, then UpdateFromSettings(false); the device, the
\* shaders or the panel may fail to initialise, and the program then ends.
AppInit ==
    /\ pc = "new"
    /\ \E l \in {LoadResult(m_data, m_path, m_lastWriteTime, fs, SettingsPath)} :
       \E u \in {UpdateFromSettings(FALSE, l.data, l.path, l.time, fs)} :
          /\ m_data' = u.data
          /\ m_path' = l.path
          /\ m_lastWriteTime' = u.time
          /\ SetParams(u.params)
          /\ frame' = <<Event("load", l.ret), Event("read", TRUE)>>
    /\ \E created \in BOOLEAN : pc' = IF created THEN "check" ELSE "failed"
    /\ call' = NoCall
    /\ since' = NoSince
    /\ UNCHANGED <<fs, now, arg>>

\* Render, lines 386-396: a new frame begins with the gated reload check.
RenderCheck ==
    /\ pc = "check"
    /\ \E elapsed \in ElapsedInputs, key \in BOOLEAN :
       \E r \in {RenderCheckResult(elapsed >= m_hotReloadIntervalMs \/ key,
                                    m_data, m_path, m_lastWriteTime, fs, Params)} :
             /\ m_data' = r.data
             /\ m_lastWriteTime' = r.time
             /\ SetParams(r.params)
             /\ frame' = r.events
             /\ since' = IF r.events = <<>> THEN since ELSE NoSince
    /\ pc' = "draw"
    /\ call' = NoCall
    /\ UNCHANGED <<m_path, fs, now, arg>>

\* Render, lines 398-423: clear, fill the constant buffer, Draw(3, 0).
RenderDraw ==
    /\ pc = "draw"
    /\ frame' = Append(frame, [ev |-> "draw", ret |-> TRUE,
                               used |-> [clear |-> m_clear, tint |-> m_tint,
                                         speed |-> m_speed, scale |-> m_scale]])
    /\ pc' = "imgui"
    /\ UNCHANGED <<settingsVars, fs, now, call, since, arg,
                   m_vsync, m_hotReloadIntervalMs, m_clear, m_scale, m_speed, m_tint>>

\* Render, line 425: the panel.  One widget at most is active in a frame.
DrawImGuiStep ==
    /\ pc = "imgui"
    /\ \E w \in Widgets \cup {"none"} :
       \E inp \in IF w \in EditWidgets THEN PanelInputs ELSE {CHOOSE i \in PanelInputs : TRUE},
          rev \in IF w \in EditWidgets \cup {"Save"} THEN BOOLEAN ELSE {FALSE} :
          /\ w \in EditWidgets => arg.n < MaxEdits
          /\ w = "HotReloadIntervalMs" => inp.interval # m_hotReloadIntervalMs
          /\ w = "ClearColor" => inp.clear # m_clear
          /\ w = "Scale" => inp.scale # m_scale
          /\ w = "RotationSpeed" => inp.speed # m_speed
          /\ w = "Tint" => inp.tint # m_tint
          /\ \E r \in {DrawImGuiResult(m_data, m_path, m_lastWriteTime, fs, now,
                                       Params, {w} \cap Widgets, inp, rev)} :
             /\ m_data' = r.data
             /\ m_path' = r.path
             /\ m_lastWriteTime' = r.time
             /\ fs' = r.files
             /\ SetParams(r.params)
             /\ frame' = frame \o r.events
             /\ arg' = [n |-> IF w \in EditWidgets THEN arg.n + 1 ELSE arg.n]
             /\ since' = IF Event("load", TRUE) \in {r.events[i] : i \in 1..Len(r.events)}
                         THEN NoSince ELSE since
    /\ pc' = "present"
    /\ call' = [op |-> "DrawImGui", time |-> m_lastWriteTime,
                exists |-> FileExists(fs, SettingsPath)]
    /\ UNCHANGED now

\* Render, line 427: Present(m_vsync ? 1 : 0, 0) ends the frame.
PresentStep ==
    /\ pc = "present"
    /\ frame' = <<>>
    /\ pc' = "check"
    /\ call' = NoCall
    /\ UNCHANGED <<settingsVars, fs, now, since, arg,
                   m_vsync, m_hotReloadIntervalMs, m_clear, m_scale, m_speed, m_tint>>

\* Another process writes one of the application's texts to the file.
AppExternalWrite == ExternalWriteOf(AppTexts)

NextApp ==
    \/ AppInit
    \/ RenderCheck
    \/ RenderDraw
    \/ DrawImGuiStep
    \/ PresentStep
    \/ AppExternalWrite
    \/ ExternalDelete
    \/ ExternalLock
    \/ Tick

SpecApp == InitApp /\ [][NextApp]_vars

\* The parameters UpdateFromSettings reads that the draw call consumes.
DrawParams(P) == [clear |-> P.clear, tint |-> P.tint, speed |-> P.speed, scale |-> P.scale]

\* The positions of the frame's log that hold event e.
At(e) == {i \in 1..Len(frame) : frame[i].ev = e}

\* The positions at which the document was reloaded from the file: a
\* ReloadIfChanged that returned true, or a Load that returned true.
Reloads(evs) == {j \in 1..Len(frame) : frame[j].ev \in evs /\ frame[j].ret}

\* C10 as stated: in every frame a reload comes before the read of the
\* settings into the runtime parameters and that read before the draw call,
\* and no draw call of a frame uses parameters that were read before a
\* reload performed in that same frame (by ReloadIfChanged or by Load).
C10_Original ==
    \A i \in At("draw") : \A j \in Reloads({"reload", "load"}) :
        \E r \in At("read") : j < r /\ r < i

\* C10 as amended: in every frame a reload by ReloadIfChanged is followed at
\* once by the read of the settings into the runtime parameters, and that
\* read comes before the frame's one draw call, which uses exactly the
\* values the reloaded document yields; the Load of the panel's Reload
\* button is followed at once by a read too, but both come after the
\* frame's draw call.
C10_FrameOrdering ==
    /\ \A j \in Reloads({"reload", "load"}) : j + 1 \in At("read")
    /\ \A i \in At("draw") : \A j \in Reloads({"reload"}) :
          \E r \in At("read") : j < r /\ r < i
    /\ \A i \in At("draw") : \A j \in At("load") : i < j
    /\ pc \in {"imgui", "present"} => Cardinality(At("draw")) = 1
    /\ pc \in {"check", "draw"} => At("draw") = {}
    /\ (pc = "imgui" /\ Reloads({"reload"}) # {})
          => frame[Len(frame)].used = DrawParams(UpdatedParams(m_data))

\* A frame reloaded the file, read the settings and then drew with the
\* scale the file gives.
C10_Witness ==
    /\ pc = "imgui"
    /\ Len(frame) = 3
    /\ frame[1] = Event("reload", TRUE)
    /\ frame[2] = Event("read", TRUE)
    /\ frame[3].ev = "draw"
    /\ frame[3].used.scale = Dbl(2, 5000000)
    /\ m_data = Parse(ExampleText).data

\* C11: every edit of the panel is persisted at once.  In a frame in which
\* the panel called a setter, Save is called after it in the same frame,
\* with no reload check between the two, so the reload check, the draw
\* call and the panel's widgets never start with an edit that was not yet
\* handed to Save; and when that Save succeeds the file holds exactly the
\* edited document, with its timestamp stored.
C11_EditPersistedAtOnce ==
    /\ [](/\ \A i \in At("set") :
                /\ \E j \in At("save") : j > i
                /\ \A k \in At("reload") : k < i
          /\ pc \in {"check", "draw", "imgui"} => At("set") = {})
    /\ [][(pc = "imgui" /\ pc' = "present" /\ m_data' # m_data /\ ~("load" \in {frame'[i].ev : i \in 1..Len(frame')}))
            => /\ frame'[Len(frame')].ev = "save"
               /\ frame'[Len(frame')].ret = (~FileExists(fs, m_path) \/ CanOpen(fs, m_path))
               /\ frame'[Len(frame')].ret =>
                     /\ FileExists(fs', m_path)
                     /\ Parse(fs'[m_path].content).data = m_data'
                     /\ m_lastWriteTime' = LastWriteTime(fs', m_path)
               /\ ~frame'[Len(frame')].ret => fs' = fs
         ]_vars

\* The interval slider was moved and the frame's Save put the new value
\* into the file.
C11_Witness ==
    /\ pc = "present"
    /\ At("set") # {}
    /\ frame[Len(frame)] = Event("save", TRUE)
    /\ m_hotReloadIntervalMs = 2000
    /\ GetInt(Parse(fs[m_path].content).data, S_Render, S_HotReloadIntervalMs, 500) = 2000
    /\ GetInt(m_data, S_Render, S_HotReloadIntervalMs, 500) = 2000

(***************************************************************************)
(* Part 12.  SpecHot: the render loop next to an editor that rewrites an   *)
(* existing, readable settings.ini, every write at a time of its own.      *)
(***************************************************************************)

MaxHotTime == 3

InitHot ==
    /\ SettingsConstructed
    /\ AppConstructed
    /\ fs = [p \in FilePaths |->
               [exists |-> TRUE, content |-> ExampleText, mtime |-> 1, locked |-> FALSE]]
    /\ now = 1
    /\ call = NoCall
    /\ since = NoSince
    /\ arg = [n |-> 0]

\* The editor saves the file, later than the write before it; since keeps
\* what it wrote and when, until a reload check or a Load has run.
HotExternalWrite ==
    /\ pc # "new"
    /\ \E t \in AppTexts :
          /\ fs[SettingsPath].mtime # now
          /\ fs[SettingsPath].content # t
          /\ fs' = [fs EXCEPT ![SettingsPath] =
                       [exists |-> TRUE, content |-> t, mtime |-> now, locked |-> FALSE]]
          /\ since' = [reload |-> "none", wrote |-> TRUE, access |-> FALSE,
                       saved |-> FALSE, text |-> t, at |-> now]
    /\ UNCHANGED <<settingsVars, now, call, arg, appVars>>

HotTick ==
    /\ now < MaxHotTime
    /\ now' = now + 1
    /\ UNCHANGED <<settingsVars, fs, call, since, arg, appVars>>

NextHot ==
    \/ AppInit
    \/ RenderCheck
    \/ RenderDraw
    \/ DrawImGuiStep
    \/ PresentStep
    \/ HotExternalWrite
    \/ HotTick

SpecHot == InitHot /\ [][NextHot]_vars

\* An executed reload check finds an external write not yet picked up, in
\* a file that exists and can be read, with no two writes at one time.
HotCheckDue ==
    /\ pc = "check"
    /\ pc' = "draw"
    /\ frame' # <<>>
    /\ since.wrote
    /\ FileExists(fs, m_path)
    /\ CanOpen(fs, m_path)
    /\ fs[m_path].mtime # since.at \/ fs[m_path].content = since.text

\* C12: hot reload is never lost.  After an external write the next
\* executed reload check returns true and the document becomes the parse
\* of what the external writer wrote, also when the panel saved in between.
C12_Original ==
    [][HotCheckDue =>
         /\ frame'[1] = Event("reload", TRUE)
         /\ m_data' = Parse(since.text).data
    ]_vars

\* C13: cache coherence of the render loop.  After Init, at the end of
\* every frame and at every stage in between, m_vsync is 0 or 1 and is 1
\* exactly when GetBool("Render", "VSync", true) is true, and
\* m_hotReloadIntervalMs is GetInt("Render", "HotReloadIntervalMs", 500).
C13_CacheCoherence ==
    pc # "new" =>
        /\ m_vsync \in {0, 1}
        /\ m_vsync = (IF GetBool(m_data, S_Render, S_VSync, TRUE) THEN 1 ELSE 0)
        /\ m_hotReloadIntervalMs = GetInt(m_data, S_Render, S_HotReloadIntervalMs, 500)

\* A frame ended after the VSync checkbox was cleared over a document
\* reloaded from the file with the odd values.
C13_Witness ==
    /\ pc = "check"
    /\ frame = <<>>
    /\ m_vsync = 0
    /\ m_hotReloadIntervalMs = 12
    /\ m_data[S_Render][S_VSync] = S_0
    /\ m_data[S_Render][S_HotReloadIntervalMs] = <<"1", "2", "a", "b", "c">>

\* The positions of the log f that hold event e.
EvAt(f, e) == {i \in 1..Len(f) : f[i].ev = e}

\* The result of the one call of kind e that the log f records.
RetOf(f, e) == f[CHOOSE i \in EvAt(f, e) : TRUE].ret

\* The step ran Load: Init, or the panel with its Reload button pressed.
LoadRan ==
    \/ pc = "new" /\ pc' # "new"
    \/ pc = "imgui" /\ pc' = "present" /\ EvAt(frame', "load") # {}

\* The step ran Save: the panel with a widget moved or Save pressed.
SaveRan == pc = "imgui" /\ pc' = "present" /\ EvAt(frame', "save") # {}

\* The step ran the reload check of Render.
CheckRan == pc = "check" /\ pc' = "draw" /\ EvAt(frame', "reload") # {}

\* Load fails exactly when the file is missing or cannot be opened; it
\* remembers its path all the same and leaves document and timestamp.
LoadFailureKeepsPath ==
    LoadRan =>
       /\ m_path' = SettingsPath
       /\ RetOf(frame', "load") = (FileExists(fs, SettingsPath) /\ CanOpen(fs, SettingsPath))
       /\ ~RetOf(frame', "load") =>
             /\ m_data' = m_data
             /\ m_lastWriteTime' = m_lastWriteTime
             /\ fs' = fs

\* What a Save that returned true leaves behind.
SaveWrote ==
    /\ RetOf(frame', "save")
    /\ FileExists(fs', m_path')
    /\ Parse(fs'[m_path'].content).data = m_data'
    /\ m_lastWriteTime' = LastWriteTime(fs', m_path')

\* What a reload check that returned true leaves behind.
CheckLoaded ==
    /\ RetOf(frame', "reload")
    /\ m_data' = Parse(fs[m_path].content).data
    /\ m_lastWriteTime' = LastWriteTime(fs, m_path)

MaxRoundLines == 2

MaxRoundSets == 1

\* "[Render]", "VSync=on ; c", " [ Clear ] #x", "j=a=b", "[k=1]", "[a]=", " = x"
RoundLines ==
    { <<"[", "R", "e", "n", "d", "e", "r", "]">>,
      <<"V", "S", "y", "n", "c", "=", "o", "n", " ", ";", " ", "c">>,
      <<" ", "[", " ", "C", "l", "e", "a", "r", " ", "]", " ", "#", "x">>,
      <<"j", "=", "a", "=", "b">>,
      <<"[", "k", "=", "1", "]">>,
      <<"[", "a", "]", "=">>,
      <<" ", "=", " ", "x">> }

InitRound ==
    /\ SettingsConstructed
    /\ AppConstructed
    /\ fs = [p \in FilePaths |-> NoFile]
    /\ now = 1
    /\ call = [op |-> "build"]
    /\ since = NoSince
    /\ arg = [lines |-> <<>>, n |-> 0]

\* The text of the file grows by one line.
RoundAppend ==
    /\ call.op = "build"
    /\ Len(arg.lines) < MaxRoundLines
    /\ \E l \in RoundLines : arg' = [arg EXCEPT !.lines = Append(@, l)]
    /\ UNCHANGED <<settingsVars, fs, now, call, since, appVars>>

\* The text is written to settings.ini.
RoundWrite ==
    /\ call.op = "build"
    /\ fs' = [fs EXCEPT ![SettingsPath] =
                 [exists |-> TRUE, content |-> JoinLines(arg.lines), mtime |-> now,
                  locked |-> FALSE]]
    /\ call' = [op |-> "written"]
    /\ UNCHANGED <<settingsVars, now, since, arg, appVars>>

\* Load("settings.ini") before the file exists: false, the path is kept.
RoundLoadMissing ==
    /\ call.op = "build"
    /\ m_path = ""
    /\ \E r \in {LoadResult(m_data, m_path, m_lastWriteTime, fs, SettingsPath)} :
          /\ m_data' = r.data
          /\ m_path' = r.path
          /\ m_lastWriteTime' = r.time
    /\ UNCHANGED <<fs, now, call, since, arg, appVars>>

\* Load("settings.ini")
RoundLoad ==
    /\ call.op = "written"
    /\ \E r \in {LoadResult(m_data, m_path, m_lastWriteTime, fs, SettingsPath)} :
          /\ m_data' = r.data
          /\ m_path' = r.path
          /\ m_lastWriteTime' = r.time
          /\ call' = [op |-> "Load", ret |-> r.ret]
    /\ UNCHANGED <<fs, now, since, arg, appVars>>

\* ReloadIfChanged() picks the file up once the path is known.
RoundReloadIfChanged ==
    /\ call.op = "written"
    /\ m_path # ""
    /\ \E r \in {ReloadResult(m_data, m_path, m_lastWriteTime, fs)} :
          /\ m_data' = r.data
          /\ m_lastWriteTime' = r.time
          /\ call' = [op |-> "Load", ret |-> r.ret]
    /\ UNCHANGED <<m_path, fs, now, since, arg, appVars>>

\* SetBool, SetInt or SetDouble as the panel calls them.
RoundSet ==
    /\ call.op \in {"Load", "Set"}
    /\ arg.n < MaxRoundSets
    /\ \/ \E v \in BOOLEAN : m_data' = SetBool(m_data, S_Render, S_VSync, v)
       \/ m_data' = SetInt(m_data, S_Render, S_HotReloadIntervalMs, 250)
       \/ m_data' = SetDouble(m_data, S_Clear, S_R, Dbl(0, 5000000))
       \/ m_data' = SetDouble(m_data, S_Triangle, S_RotationSpeed, -Dbl(10, 0))
    /\ arg' = [arg EXCEPT !.n = @ + 1]
    /\ call' = [op |-> "Set"]
    /\ UNCHANGED <<m_path, m_lastWriteTime, fs, now, since, appVars>>

\* Save(), the maps iterated in any order.
RoundSave ==
    /\ call.op \in {"Load", "Set"}
    /\ \E text \in SaveTexts(m_data) :
       \E r \in {SaveResult(m_data, m_path, m_lastWriteTime, fs, now, text)} :
          /\ fs' = r.files
          /\ m_lastWriteTime' = r.time
          /\ call' = [op |-> "Save", ret |-> r.ret, pre |-> m_data]
    /\ UNCHANGED <<m_data, m_path, now, since, arg, appVars>>

\* Load of the same path after the Save.
RoundReload ==
    /\ call.op = "Save"
    /\ \E r \in {LoadResult(m_data, m_path, m_lastWriteTime, fs, m_path)} :
          /\ m_data' = r.data
          /\ m_path' = r.path
          /\ m_lastWriteTime' = r.time
          /\ call' = [op |-> "Reload", saved |-> call.ret, ret |-> r.ret,
                      pre |-> call.pre]
    /\ UNCHANGED <<fs, now, since, arg, appVars>>

NextRound ==
    \/ RoundAppend
    \/ RoundWrite
    \/ RoundLoadMissing
    \/ RoundLoad
    \/ RoundReloadIfChanged
    \/ RoundSet
    \/ RoundSave
    \/ RoundReload

SpecRound == InitRound /\ [][NextRound]_vars

\* C15: Save then Load is the identity.  For every document that Load or
\* ReloadIfChanged produced and setters with the names of the render loop then changed,
\* every text Save may write parses back to exactly that document, and
\* after a Save and a Load of the same path that both returned true the
\* document is what it was before the Save.
C15_SaveLoadRoundTrip ==
    /\ call.op \in {"Load", "Set"} =>
          \A t \in SaveTexts(m_data) : Parse(t).data = m_data
    /\ (call.op = "Reload" /\ call.saved /\ call.ret) => m_data = call.pre

\* A document with two categories, one from the file with "a=b" as a
\* value and one made by a setter, came back from Save and Load.
C15_Witness ==
    /\ call.op = "Reload"
    /\ call.saved
    /\ call.ret
    /\ m_data = call.pre
    /\ arg.n = 1
    /\ Cardinality(DOMAIN m_data) = 2
    /\ \E c \in DOMAIN m_data : \E k \in DOMAIN m_data[c] : m_data[c][k] = <<"a", "=", "b">>

====
